---- MODULE Spec2Model ----
(***************************************************************************)
(* CTFNotifier Discord bot: the event store (utils/database.py), the       *)
(* notification scheduler and the retention sweeper                        *)
(* (cogs/notification_service.py) and the command handlers that write the  *)
(* store (cogs/event_commands.py).                                         *)
(*                                                                         *)
(* Time is counted in seconds.  The clock `now` only moves forward; it     *)
(* jumps between the instants at which some trigger window of the modelled *)
(* events opens or closes, so a timer that runs out between two of them    *)
(* is served at the later one.  The bot runs on one asyncio thread: an     *)
(* action is the code between two awaits that touch the store or the       *)
(* network.                                                                *)
(***************************************************************************)
EXTENDS Integers, Sequences, FiniteSets, TLC

\* ---------------------------------------------------------------- constants
NOTIFICATION_CHECK_INTERVAL_SECONDS == 20
BackoffFactor == 5
OneHour == 3600
FiveMinutes == 300
OneMinute == 60
OneDay == 86400
\* datetime.min, the earliest instant a datetime can hold: an arithmetic
\* result below it raises OverflowError.  It lies further in the past than
\* any instant the model's clock reaches.
DatetimeMin == -1000000000

\* ------------------------------------------------------------------- bounds
\* Rows inserted in one run of the model; each insert starts one lifetime.
MaxLifetimes == 2

\* ------------------------------------------------------------------ domains
Owners == {1, 2}
Names == {"a"}

\* The flag columns, in the order check_events_loop handles them.
Kinds == <<"reminder_sent", "good_luck_sent", "ending_soon_sent",
           "congratulations_sent">>
KindSet == {Kinds[i] : i \in 1..4}

\* Start of the catalog event, and its end one hour later.
EventStart == 2 * OneHour
EventEnd == EventStart + OneHour

\* A datetime object: its wall-clock reading (seconds) and its UTC offset; a
\* naive datetime has offset 0, which is how the scheduler reads it.
Datetime(wall, off) == [type |-> "datetime", wall |-> wall, off |-> off]

\* datetime.isoformat(" "), the text sqlite3 binds for a datetime parameter
\* ("YYYY-MM-DD HH:MM:SS" followed by the offset of an aware datetime), and
\* datetime.fromisoformat, which reads such a text back.
isoformat(dt) == [type |-> "str", wall |-> dt.wall, off |-> dt.off]
fromisoformat(text) == [type |-> "datetime", wall |-> text.wall, off |-> text.off]

\* dt.astimezone(pytz.utc), or pytz.utc.localize(dt) for a naive dt: the
\* instant in UTC seconds.
astimezone_utc(dt) == dt.wall - dt.off

\* Comparison of two timestamp texts by SQLite: the date and time characters
\* decide; the offset suffix is compared only between texts that agree on
\* them, which the model leaves as a tie.
TextBefore(a, b) == a.wall < b.wall

\* What CTFtime answers for an event id: event 1 exists, event 2 does not.
Catalog ==
    [i \in {1, 2} |->
        IF i = 1
        THEN [event_name |-> "a", ctftime_url |-> "ctftime/1",
              start |-> Datetime(EventStart, 0),
              finish |-> Datetime(EventEnd, 0)]
        ELSE [event_name |-> "none", ctftime_url |-> "none",
              start |-> Datetime(0, 0), finish |-> Datetime(0, 0)]]

\* The start/end pairs a user types into /custom: an event that starts at
\* "0001-01-01 00:00" and ends when the catalog event ends, and a pair with
\* start >= end.
CustomSpans == {<<Datetime(DatetimeMin, 0), Datetime(EventEnd, 0)>>,
                <<Datetime(EventEnd, 0), Datetime(EventStart, 0)>>}

\* Instants the clock visits.  WindowInstants: one interval before the first
\* window of the catalog event, then every instant at which one of its windows
\* opens or closes.  SweepInstants: the opening of its first and of its last
\* window, and the instants around the end of its retention.
FirstInstant == EventStart - OneHour - NOTIFICATION_CHECK_INTERVAL_SECONDS
WindowInstants ==
    {FirstInstant,
     EventStart - OneHour,
     EventStart - OneHour + FiveMinutes,
     EventStart,
     EventStart + OneMinute,
     EventStart + FiveMinutes,
     EventEnd}
SweepInstants ==
    {FirstInstant,
     EventStart - OneHour,
     EventEnd,
     EventEnd + OneDay,
     EventEnd + OneDay + 1}

\* Instants of the retention of the catalog event: before it, its end, and
\* 23 hours, one day, one day and a second, and 25 hours after its end.
RetentionInstants ==
    {FirstInstant,
     EventEnd,
     EventEnd + 23 * OneHour,
     EventEnd + OneDay,
     EventEnd + OneDay + 1,
     EventEnd + 25 * OneHour}

\* Start/end pairs typed into /custom with a UTC offset: the instants of the
\* catalog event, written two hours west and two hours east of UTC
\* (for example "2025-01-01 10:00-02:00").
OffsetSpans ==
    {<<Datetime(EventStart + off, off), Datetime(EventEnd + off, off)>> :
        off \in {-2 * OneHour, 2 * OneHour}}

\* Instants of the end-to-end scenario of an event that is inserted one hour
\* before its start: the insert, 2 minutes later, and 2 minutes, 1 minute
\* and 0 minutes before the start of an event inserted at the first of them.
ScenarioInstants ==
    {EventStart - OneHour,
     EventStart - OneHour + 2 * OneMinute,
     EventStart - 2 * OneMinute,
     EventStart - OneMinute,
     EventStart}

VARIABLES
    now,          \* the wall clock (UTC seconds)
    ready,        \* bot.wait_until_ready() has returned
    store,        \* the rows of table user_events
    nextLid,      \* ghost: identity of the next inserted row (one lifetime)
    views,        \* authors with a pending ClearConfirmationView
    lookup,       \* the /add whose requests.get has not returned yet
    sharing,      \* the /share between its get_event_details and its insert
    pc,           \* check_events_loop: sleep, record, kind, send, write, backoff
    snapshot,     \* all_events of the running cycle
    now_utc,      \* now_utc of the running cycle
    idx,          \* position of `event` in all_events
    skipped,      \* ghost: positions the running cycle left at a `continue`
    kind,         \* position in Kinds of the block being executed
    nextIter,     \* tasks.loop: scheduled time of the next iteration
    wakeAt,       \* end of asyncio.sleep in the top-level handler
    sweeper,      \* cleanup_past_events_loop: waiting, done, logged, stopped
    deleted_count, \* ghost: deleted_count of the latest sweep that returned
    delivered,    \* ghost: (lifetime, kind) for which a user.send succeeded
    failedLast,   \* ghost: (lifetime, kind) whose latest user.send failed
    reply         \* ghost: the latest command and the follow-up message it got

vars == <<now, ready, store, nextLid, views, lookup, sharing, pc, snapshot, now_utc, idx,
          skipped, kind, nextIter, wakeAt, sweeper, deleted_count, delivered,
          failedLast, reply>>

storeVars == <<store, nextLid>>
schedVars == <<pc, snapshot, now_utc, idx, skipped, kind, nextIter, wakeAt>>
ghostVars == <<delivered, failedLast, reply>>

\* What stands for a text that datetime.fromisoformat rejects with ValueError.
NotADate == [type |-> "ValueError", wall |-> 0, off |-> 0]

\* A command as a handler receives it: the user who typed it, the text
\* argument (the URL of /add, the event name of the others), the start/end
\* pair of /custom and the target of /share (NoSpan and 0 when absent).
NoSpan == <<NotADate, NotADate>>
Request(command, user, name, span, target) ==
    [command |-> command, user |-> user, name |-> name, span |-> span,
     target |-> target]
NoRequest == Request("none", 0, "", NoSpan, 0)

\* No /share is between its two awaits.
NoShare == [request |-> NoRequest, event |-> <<>>]
sweepVars == <<sweeper, deleted_count>>

Max(a, b) == IF a > b THEN a ELSE b

Interval == NOTIFICATION_CHECK_INTERVAL_SECONDS

\* ---------------------------------------------------------------- the store
\* The value sqlite3 stores for a bound parameter: the ISO text of a
\* datetime, a text as it is.
adapt(value) == IF value.type = "datetime" THEN isoformat(value) ELSE value

\* A row of user_events as add_event_to_user inserts it: the four flags take
\* their column default 0.
NewRow(user_id, event_data, lid) ==
    [user_id |-> user_id,
     event_name |-> event_data.event_name,
     ctftime_url |-> event_data.ctftime_url,
     start_time |-> adapt(event_data.start),
     end_time |-> adapt(event_data.finish),
     reminder_sent |-> FALSE,
     good_luck_sent |-> FALSE,
     ending_soon_sent |-> FALSE,
     congratulations_sent |-> FALSE,
     lid |-> lid]

HasKey(rows, user_id, event_name) ==
    \E r \in rows : r.user_id = user_id /\ r.event_name = event_name

\* add_event_to_user as INSERT OR REPLACE: a duplicate key overwrites the row.
add_event_to_user_Replaces(rows, user_id, event_data, lid) ==
    [ok |-> TRUE,
     rows |-> {r \in rows : ~(r.user_id = user_id
                               /\ r.event_name = event_data.event_name)}
              \cup {NewRow(user_id, event_data, lid)}]

\* INSERT INTO user_events; IntegrityError on the primary key returns False.
add_event_to_user(rows, user_id, event_data, lid) ==
    IF HasKey(rows, user_id, event_data.event_name)
    THEN [ok |-> FALSE, rows |-> rows]
    ELSE [ok |-> TRUE, rows |-> rows \cup {NewRow(user_id, event_data, lid)}]

\* SELECT * ... WHERE user_id = ? AND event_name = ?  (the set is empty or one row)
get_event_details(rows, user_id, event_name) ==
    {r \in rows : r.user_id = user_id /\ r.event_name = event_name}

\* DELETE ... WHERE user_id = ? AND event_name = ?
remove_event_from_user(rows, user_id, event_name) ==
    [ok |-> HasKey(rows, user_id, event_name),
     rows |-> {r \in rows : ~(r.user_id = user_id /\ r.event_name = event_name)}]

\* clear_user_events as a DELETE without its WHERE clause.
clear_user_events_EveryOwner(rows, user_id) ==
    [count |-> Cardinality(rows), rows |-> {}]

\* DELETE ... WHERE user_id = ?
clear_user_events(rows, user_id) ==
    [count |-> Cardinality({r \in rows : r.user_id = user_id}),
     rows |-> {r \in rows : r.user_id # user_id}]

\* update_notification_flag as an UPDATE that also resets the other flags.
update_notification_flag_ResetsOthers(rows, user_id, event_name, flag_name, value) ==
    {IF r.user_id = user_id /\ r.event_name = event_name
     THEN [f \in DOMAIN r |->
              IF f \in KindSet THEN (f = flag_name /\ value) ELSE r[f]]
     ELSE r : r \in rows}

\* update_notification_flag as an UPDATE ... WHERE event_name = ? alone.
update_notification_flag_AnyOwner(rows, user_id, event_name, flag_name, value) ==
    {IF r.event_name = event_name
     THEN [r EXCEPT ![flag_name] = value]
     ELSE r : r \in rows}

\* UPDATE user_events SET flag_name = value WHERE user_id = ? AND event_name = ?
update_notification_flag(rows, user_id, event_name, flag_name, value) ==
    {IF r.user_id = user_id /\ r.event_name = event_name
     THEN [r EXCEPT ![flag_name] = value]
     ELSE r : r \in rows}

\* DELETE ... WHERE end_time < utcnow() - 1 day: the stored text is compared
\* with the text of the naive UTC cutoff.
remove_past_events(rows, t) ==
    LET cutoff_time == adapt(Datetime(t - OneDay, 0))
    IN [count |-> Cardinality({r \in rows : TextBefore(r.end_time, cutoff_time)}),
        rows |-> {r \in rows : ~TextBefore(r.end_time, cutoff_time)}]

\* ORDER BY user_id, start_time ASC
RowBefore(r1, r2) ==
    \/ r1.user_id < r2.user_id
    \/ r1.user_id = r2.user_id /\ ~TextBefore(r2.start_time, r1.start_time)

\* SELECT * FROM user_events ORDER BY user_id, start_time ASC: every sequence
\* of the rows in that order (rows that tie come in any order).
get_all_events_for_notifications(rows) ==
    {s \in [1..Cardinality(rows) -> rows] :
        /\ \A i, j \in 1..Cardinality(rows) : i # j => s[i] # s[j]
        /\ \A i, j \in 1..Cardinality(rows) : i < j => RowBefore(s[i], s[j])}

\* -------------------------------------------------------------------- Init
Init ==
    /\ now = FirstInstant
    /\ ready = FALSE
    /\ store = {}
    /\ nextLid = 1
    /\ views = {}
    /\ pc = "sleep"
    /\ snapshot = <<>>
    /\ now_utc = 0
    /\ idx = 0
    /\ skipped = {}
    /\ kind = 1
    /\ nextIter = 0
    /\ wakeAt = 0
    /\ sweeper = "waiting"
    /\ deleted_count = 0
    /\ delivered = {}
    /\ failedLast = {}
    /\ reply = [request |-> NoRequest, message |-> "none"]
    /\ lookup = NoRequest
    /\ sharing = NoShare

\* ------------------------------------------------------------ environment
\* Time passes, to a later instant of interest.  tasks.loop only compares its
\* schedule with the clock, and a schedule more than one interval in the past
\* acts as one exactly one interval in the past: it is kept at that.
Tick(instants) ==
    /\ \E t \in instants : t > now /\ now' = t
    /\ nextIter' = IF ready THEN Max(nextIter, now' - Interval) ELSE nextIter
    /\ UNCHANGED <<ready, lookup, sharing, sweepVars, views, storeVars, pc, snapshot, now_utc, idx, skipped,
                   kind, wakeAt, ghostVars>>

\* The chat connection reports ready: before_loops returns and both loops
\* schedule their first iteration at once.
BotReady ==
    /\ ~ready
    /\ ready' = TRUE
    /\ nextIter' = now
    /\ UNCHANGED <<now, lookup, sharing, sweepVars, views, storeVars, pc, snapshot, now_utc, idx, skipped,
                   kind, wakeAt, ghostVars>>

\* ------------------------------------------------------- command handlers
\* The follow-up message of a handler, recorded with the command in the
\* specifications that name "replies".
Reply(track, request, message) ==
    reply' = IF "replies" \in track
             THEN [request |-> request, message |-> message]
             ELSE reply

\* Texts a user passes to /add.  re.match(CTFTIME_EVENT_URL_REGEX, url) gives
\* the event id of the first two and None (0 here) for the third.
Urls == {"https://ctftime.org/event/1", "https://ctftime.org/event/2",
         "ctftime.org/event/1"}

re_match(ctftime_url) ==
    CASE ctftime_url = "https://ctftime.org/event/1" -> 1
      [] ctftime_url = "https://ctftime.org/event/2" -> 2
      [] OTHER -> 0

\* /add that inserts what the lookup returned without the `if not event_data`
\* check.
AddEvent_NoLookupCheck(user, ctftime_url, track) ==
    LET event_id == re_match(ctftime_url) IN
    /\ nextLid <= MaxLifetimes
    /\ \/ /\ event_id = 0
          /\ UNCHANGED storeVars
          /\ Reply(track, Request("add", user, ctftime_url, NoSpan, 0),
                      "invalid_url")
       \/ /\ event_id # 0
          /\ LET event_data == Catalog[event_id]
                 res == add_event_to_user(store, user, event_data, nextLid)
             IN /\ store' = res.rows
                /\ nextLid' = IF res.ok THEN nextLid + 1 ELSE nextLid
                /\ Reply(track, Request("add", user, ctftime_url, NoSpan, 0),
                      IF res.ok THEN "added" ELSE "already_exists")
    /\ UNCHANGED <<now, ready, lookup, sharing, sweepVars, views, schedVars, delivered, failedLast>>

\* add_event without the `finish_time_utc < now_utc` check.
add_event_NoFinishCheck(user, ctftime_url, track) ==
    LET event_id == re_match(ctftime_url) IN
    /\ nextLid <= MaxLifetimes
    /\ \/ /\ event_id = 0
          /\ UNCHANGED storeVars
          /\ Reply(track, Request("add", user, ctftime_url, NoSpan, 0),
                      "invalid_url")
       \/ /\ event_id # 0
          /\ LET event_data == Catalog[event_id] IN
             \/ /\ event_data.event_name = "none"
                /\ UNCHANGED storeVars
                /\ Reply(track, Request("add", user, ctftime_url, NoSpan, 0),
                      "fetch_failed")
             \/ /\ event_data.event_name # "none"
                /\ LET res == add_event_to_user(store, user, event_data, nextLid) IN
                   /\ store' = res.rows
                   /\ nextLid' = IF res.ok THEN nextLid + 1 ELSE nextLid
                   /\ Reply(track, Request("add", user, ctftime_url, NoSpan, 0),
                      IF res.ok THEN "added" ELSE "already_exists")
    /\ UNCHANGED <<now, ready, sharing, sweepVars, views, schedVars, delivered, failedLast>>

\* add_event from its regular expression to its follow-up message.
add_event(user, ctftime_url, track) ==
    LET event_id == re_match(ctftime_url) IN
    /\ nextLid <= MaxLifetimes
    /\ \/ /\ event_id = 0                             \* `if not match`
          /\ UNCHANGED storeVars
          /\ Reply(track, Request("add", user, ctftime_url, NoSpan, 0),
                      "invalid_url")
       \/ /\ event_id # 0
          /\ LET event_data == Catalog[event_id] IN
             \/ /\ event_data.event_name = "none"      \* fetch_event_details is None
                /\ UNCHANGED storeVars
                /\ Reply(track, Request("add", user, ctftime_url, NoSpan, 0),
                      "fetch_failed")
             \/ /\ event_data.event_name # "none"
                /\ astimezone_utc(event_data.finish) < now   \* already finished
                /\ UNCHANGED storeVars
                /\ Reply(track, Request("add", user, ctftime_url, NoSpan, 0),
                      "already_finished")
             \/ /\ event_data.event_name # "none"
                /\ ~(astimezone_utc(event_data.finish) < now)
                /\ LET res == add_event_to_user(store, user, event_data, nextLid) IN
                   /\ store' = res.rows
                   /\ nextLid' = IF res.ok THEN nextLid + 1 ELSE nextLid
                   /\ Reply(track, Request("add", user, ctftime_url, NoSpan, 0),
                      IF res.ok THEN "added" ELSE "already_exists")
    /\ UNCHANGED <<now, ready, sharing, sweepVars, views, schedVars, delivered, failedLast>>

\* /add ctftime_url, lookup included: fetch_event_details is an ordinary
\* call, and nothing else runs between the start of the handler and its
\* first await after the lookup.
AddEvent(user, ctftime_url, track) ==
    /\ add_event(user, ctftime_url, track)
    /\ UNCHANGED lookup

\* /add seen from outside the event loop: the handler has called
\* requests.get (timeout 10 s), which has not returned.
AddLookup(user, ctftime_url) ==
    /\ lookup = NoRequest
    /\ nextLid <= MaxLifetimes
    /\ lookup' = Request("add", user, ctftime_url, NoSpan, 0)
    /\ UNCHANGED <<now, ready, sharing, sweepVars, views, storeVars, schedVars, ghostVars>>

\* requests.get returns and the handler runs on.
AddResume(track) ==
    /\ lookup # NoRequest
    /\ add_event(lookup.user, lookup.name, track)
    /\ lookup' = NoRequest

\* The event loop runs one coroutine until its next await: while the
\* thread is inside requests.get no other coroutine is resumed.
EventLoopFree == lookup = NoRequest
Scheduled(A) == EventLoopFree /\ A

\* Start/end pairs of /custom in which one text is not a date.
MalformedSpans == {<<NotADate, Datetime(EventEnd, 0)>>,
                   <<Datetime(EventStart, 0), NotADate>>}

\* /custom without the `start_dt >= end_dt` check.
CreateCustomEvent_NoOrderCheck(user, name, span, track) ==
    LET event_data == [event_name |-> name, ctftime_url |-> "none",
                       start |-> span[1], finish |-> span[2]]
    IN
    /\ nextLid <= MaxLifetimes
    /\ \/ /\ NotADate \in {span[1], span[2]}
          /\ UNCHANGED storeVars
          /\ Reply(track, Request("custom", user, name, span, 0),
                      "invalid_date")
       \/ /\ NotADate \notin {span[1], span[2]}
          /\ LET res == add_event_to_user(store, user, event_data, nextLid) IN
             /\ store' = res.rows
             /\ nextLid' = IF res.ok THEN nextLid + 1 ELSE nextLid
             /\ Reply(track, Request("custom", user, name, span, 0),
                      IF res.ok THEN "custom_added" ELSE "already_exists")
    /\ UNCHANGED <<now, ready, lookup, sharing, sweepVars, views, schedVars, delivered, failedLast>>

\* /custom with the given name and start/end pair; a member of the pair is
\* the datetime that fromisoformat returns for the text, or NotADate.
CreateCustomEvent(user, name, span, track) ==
    LET start_dt == span[1]
        end_dt == span[2]
        event_data == [event_name |-> name, ctftime_url |-> "none",
                       start |-> start_dt, finish |-> end_dt]
    IN
    /\ nextLid <= MaxLifetimes
    /\ \/ /\ NotADate \in {start_dt, end_dt}            \* except ValueError
          /\ UNCHANGED storeVars
          /\ Reply(track, Request("custom", user, name, span, 0),
                      "invalid_date")
       \/ /\ NotADate \notin {start_dt, end_dt}
          /\ astimezone_utc(start_dt) >= astimezone_utc(end_dt)
          /\ UNCHANGED storeVars
          /\ Reply(track, Request("custom", user, name, span, 0),
                      "start_not_before_end")
       \/ /\ NotADate \notin {start_dt, end_dt}
          /\ ~(astimezone_utc(start_dt) >= astimezone_utc(end_dt))
          /\ LET res == add_event_to_user(store, user, event_data, nextLid) IN
             /\ store' = res.rows
             /\ nextLid' = IF res.ok THEN nextLid + 1 ELSE nextLid
             /\ Reply(track, Request("custom", user, name, span, 0),
                      IF res.ok THEN "custom_added" ELSE "already_exists")
    /\ UNCHANGED <<now, ready, lookup, sharing, sweepVars, views, schedVars, delivered, failedLast>>

\* /share event_name with `target`.
ShareEvent(user, event_name, target, track) ==
    LET found == get_event_details(store, user, event_name) IN
    /\ nextLid <= MaxLifetimes
    /\ \/ /\ found = {}
          /\ UNCHANGED storeVars
          /\ Reply(track, Request("share", user, event_name, NoSpan, target),
                      "share_not_found")
       \/ /\ found # {}
          /\ LET event == CHOOSE r \in found : TRUE
                 event_data == [event_name |-> event.event_name,
                                ctftime_url |-> event.ctftime_url,
                                start |-> event.start_time,
                                finish |-> event.end_time]
                 res == add_event_to_user(store, target, event_data, nextLid)
             IN /\ store' = res.rows
                /\ nextLid' = IF res.ok THEN nextLid + 1 ELSE nextLid
                /\ Reply(track, Request("share", user, event_name, NoSpan, target),
                      IF res.ok THEN "shared" ELSE "target_has_it")
    /\ UNCHANGED <<now, ready, lookup, sharing, sweepVars, views, schedVars, delivered, failedLast>>

\* ShareInsert that copies the fetched row as it is, flags included.
ShareInsert_CopiesFlags(track) ==
    LET event == sharing.event
        target == sharing.request.target
        res == IF HasKey(store, target, event.event_name)
               THEN [ok |-> FALSE, rows |-> store]
               ELSE [ok |-> TRUE,
                     rows |-> store \cup {[event EXCEPT !.user_id = target,
                                                        !.lid = nextLid]}]
    IN
    /\ sharing.request # NoRequest
    /\ nextLid <= MaxLifetimes \/ HasKey(store, target, event.event_name)
    /\ store' = res.rows
    /\ nextLid' = IF res.ok THEN nextLid + 1 ELSE nextLid
    /\ Reply(track, sharing.request,
             IF res.ok THEN "shared" ELSE "target_has_it")
    /\ sharing' = NoShare
    /\ UNCHANGED <<now, ready, lookup, sweepVars, views, schedVars, delivered, failedLast>>

\* /share up to the answer of `await database.get_event_details`: no row,
\* and the handler replies and returns; or the row, which the handler holds
\* while it builds event_data.
ShareRead(user, event_name, target, track) ==
    LET found == get_event_details(store, user, event_name)
        request == Request("share", user, event_name, NoSpan, target)
    IN
    /\ sharing.request = NoRequest
    /\ \/ /\ found = {}                               \* `if not event`
          /\ Reply(track, request, "share_not_found")
          /\ UNCHANGED sharing
       \/ /\ found # {}
          /\ sharing' = [request |-> request, event |-> CHOOSE r \in found : TRUE]
          /\ UNCHANGED reply
    /\ UNCHANGED <<now, ready, lookup, sweepVars, views, storeVars, schedVars, delivered,
                   failedLast>>

\* /share from `await database.add_event_to_user(user.id, event_data)` to
\* its follow-up message: event_data carries the columns of the fetched row
\* other than user_id and the four flags.
ShareInsert(track) ==
    LET event == sharing.event
        target == sharing.request.target
        event_data == [event_name |-> event.event_name,
                       ctftime_url |-> event.ctftime_url,
                       start |-> event.start_time,
                       finish |-> event.end_time]
        res == add_event_to_user(store, target, event_data, nextLid)
    IN
    /\ sharing.request # NoRequest
    /\ nextLid <= MaxLifetimes \/ HasKey(store, target, event.event_name)
    /\ store' = res.rows
    /\ nextLid' = IF res.ok THEN nextLid + 1 ELSE nextLid
    /\ Reply(track, sharing.request,
             IF res.ok THEN "shared" ELSE "target_has_it")
    /\ sharing' = NoShare
    /\ UNCHANGED <<now, ready, lookup, sweepVars, views, schedVars, delivered, failedLast>>

\* /remove event_name.
RemoveEvent(user, event_name, track) ==
    LET res == remove_event_from_user(store, user, event_name) IN
    /\ store' = res.rows
    /\ Reply(track, Request("remove", user, event_name, NoSpan, 0),
                      IF res.ok THEN "removed" ELSE "remove_not_found")
    /\ UNCHANGED <<now, ready, lookup, sharing, sweepVars, views, nextLid, schedVars, delivered,
                   failedLast>>

\* /clear: shows the confirmation view.
ClearAgenda(user) ==
    /\ user \notin views
    /\ views' = views \cup {user}
    /\ UNCHANGED <<now, ready, lookup, sharing, sweepVars, storeVars, schedVars, ghostVars>>

\* ConfirmButton without self.stop(): the view stays pending after the
\* delete.
ConfirmButton_NeverStops(author, presser, track) ==
    /\ author \in views
    /\ \/ /\ presser # author
          /\ UNCHANGED <<store, views>>
          /\ Reply(track, Request("confirm", presser, "", NoSpan, author),
                   "not_for_you")
       \/ /\ presser = author
          /\ store' = clear_user_events(store, presser).rows
          /\ UNCHANGED views
          /\ Reply(track, Request("confirm", presser, "", NoSpan, author),
                   "cleared")
    /\ UNCHANGED <<now, ready, lookup, sharing, sweepVars, nextLid, schedVars, delivered,
                   failedLast>>

\* A press of "Yes, Clear All" on author's view by `presser`: the view's
\* interaction_check, then confirm_button up to self.stop().
ConfirmButton(author, presser, track) ==
    /\ author \in views
    /\ \/ /\ presser # author                       \* interaction_check fails
          /\ UNCHANGED <<store, views>>
          /\ Reply(track, Request("confirm", presser, "", NoSpan, author),
                   "not_for_you")
       \/ /\ presser = author
          /\ store' = clear_user_events(store, presser).rows
          /\ views' = views \ {author}
          /\ Reply(track, Request("confirm", presser, "", NoSpan, author),
                   "cleared")
    /\ UNCHANGED <<now, ready, lookup, sharing, sweepVars, nextLid, schedVars, delivered,
                   failedLast>>

\* A press of "No, Cancel" on author's view by `presser`: interaction_check,
\* then cancel_button up to self.stop().
CancelButton(author, presser, track) ==
    /\ author \in views
    /\ \/ /\ presser # author
          /\ UNCHANGED views
          /\ Reply(track, Request("cancel", presser, "", NoSpan, author),
                   "not_for_you")
       \/ /\ presser = author
          /\ views' = views \ {author}
          /\ Reply(track, Request("cancel", presser, "", NoSpan, author),
                   "cancelled")
    /\ UNCHANGED <<now, ready, lookup, sharing, sweepVars, storeVars, schedVars, delivered,
                   failedLast>>

\* The view got no press for its timeout: on_timeout runs and the view is
\* finished.
OnTimeout(author, track) ==
    /\ author \in views
    /\ views' = views \ {author}
    /\ Reply(track, Request("timeout", author, "", NoSpan, author), "timed_out")
    /\ UNCHANGED <<now, ready, lookup, sharing, sweepVars, storeVars, schedVars, delivered,
                   failedLast>>

\* A press of "No, Cancel" by the author, or the view's timeout.
CancelOrTimeout(author) ==
    /\ author \in views
    /\ views' = views \ {author}
    /\ UNCHANGED <<now, ready, lookup, sharing, sweepVars, storeVars, schedVars, ghostVars>>

\* -------------------------------------------------- the notification loop
\* Lines 46-61: the fetched start_time and end_time are texts; each is
\* parsed and normalised to UTC.
StartTime(event) == astimezone_utc(fromisoformat(event.start_time))
EndTime(event) == astimezone_utc(fromisoformat(event.end_time))

\* timedelta arithmetic below datetime.min raises OverflowError.
Overflows(t) == t < DatetimeMin

\* Line 99 computes start_time - timedelta(hours=1) and line 169
\* end_time - timedelta(hours=1), both outside any try of the record.
BlockRaises(k, event) ==
    \/ k = 1 /\ Overflows(StartTime(event) - OneHour)
    \/ k = 3 /\ Overflows(EndTime(event) - OneHour)

\* ReminderDue with a window that stays open until start_time.
ReminderDue_UntilStart(event, t) ==
    LET reminder_flag == event.reminder_sent
        reminder_time == StartTime(event) - OneHour
    IN ~reminder_flag /\ reminder_time <= t /\ t < StartTime(event)

\* ReminderDue with the instant start_time - 1h itself left out.
ReminderDue_OpenLowerBound(event, t) ==
    LET reminder_flag == event.reminder_sent
        reminder_time == StartTime(event) - OneHour
    IN ~reminder_flag /\ reminder_time < t /\ t < reminder_time + FiveMinutes

\* The condition of each of the four `if` statements of check_events_loop.
ReminderDue(event, t) ==
    LET reminder_flag == event.reminder_sent
        reminder_time == StartTime(event) - OneHour
    IN ~reminder_flag /\ reminder_time <= t /\ t < reminder_time + FiveMinutes

\* GoodLuckDue with the instant start_time + 1min still inside.
GoodLuckDue_ClosedUpperBound(event, t) ==
    LET good_luck_flag == event.good_luck_sent
    IN ~good_luck_flag /\ StartTime(event) <= t /\ t <= StartTime(event) + OneMinute

GoodLuckDue(event, t) ==
    LET good_luck_flag == event.good_luck_sent
    IN ~good_luck_flag /\ StartTime(event) <= t /\ t < StartTime(event) + OneMinute

\* EndingSoonDue with a window that never closes.
EndingSoonDue_NoUpperBound(event, t) ==
    LET ending_soon_flag == event.ending_soon_sent
        ending_soon_time == EndTime(event) - OneHour
    IN ~ending_soon_flag /\ ending_soon_time <= t

EndingSoonDue(event, t) ==
    LET ending_soon_flag == event.ending_soon_sent
        ending_soon_time == EndTime(event) - OneHour
    IN ~ending_soon_flag /\ ending_soon_time <= t
                         /\ t < ending_soon_time + FiveMinutes

CongratulationsDue(event, t) ==
    LET congrats_flag == event.congratulations_sent
    IN ~congrats_flag /\ t >= EndTime(event)

\* Due without the test of the flag.
Due_IgnoresFlags(k, event, t) ==
    CASE k = 1 -> /\ StartTime(event) - OneHour <= t
                  /\ t < StartTime(event) - OneHour + FiveMinutes
      [] k = 2 -> /\ StartTime(event) <= t
                  /\ t < StartTime(event) + OneMinute
      [] k = 3 -> /\ EndTime(event) - OneHour <= t
                  /\ t < EndTime(event) - OneHour + FiveMinutes
      [] OTHER -> t >= EndTime(event)

Due(k, event, t) ==
    CASE k = 1 -> ReminderDue(event, t)
      [] k = 2 -> GoodLuckDue(event, t)
      [] k = 3 -> EndingSoonDue(event, t)
      [] OTHER -> CongratulationsDue(event, t)

\* The ghost sets keep the lifetimes that can still get a message: those of
\* the rows in the store.
Alive(keys, rows) == {key \in keys : \E r \in rows : r.lid = key[1]}

\* The locals of check_events_loop are gone once the coroutine leaves the
\* try block.
DropLocals ==
    /\ snapshot' = <<>>
    /\ now_utc' = 0
    /\ idx' = 0
    /\ skipped' = {}
    /\ kind' = 1

\* Return for a loop that fetched the rows once: after the last row it
\* samples the time and starts over with the rows it has.
Return_StartsOver ==
    /\ pc' = "record"
    /\ idx' = 1
    /\ kind' = 1
    /\ skipped' = {}
    /\ now_utc' = now
    /\ UNCHANGED <<snapshot, nextIter, wakeAt>>

\* The coroutine returns without an error and tasks.loop computes its sleep:
\* the next iteration stays at its scheduled time unless that time has passed.
Return ==
    /\ pc' = "sleep"
    /\ nextIter' = Max(now, nextIter)
    /\ wakeAt' = 0
    /\ DropLocals

\* `for event in all_events` moves on to the next row, or the loop body ends.
NextRecord(skip) ==
    IF idx < Len(snapshot)
    THEN /\ pc' = "record"
         /\ idx' = idx + 1
         /\ skipped' = skip
         /\ kind' = 1
         /\ UNCHANGED <<snapshot, now_utc, nextIter, wakeAt>>
    ELSE Return

\* After one notification block: the next block of the same row, or the
\* next row.
NextKind ==
    IF kind < 4
    THEN /\ pc' = "kind"
         /\ kind' = kind + 1
         /\ UNCHANGED <<snapshot, now_utc, idx, skipped, nextIter, wakeAt>>
    ELSE NextRecord(skipped)

\* TopLevelFailure with a wait of one interval.
TopLevelFailure_NormalWait ==
    /\ pc' = "backoff"
    /\ wakeAt' = now + NOTIFICATION_CHECK_INTERVAL_SECONDS
    /\ DropLocals

\* except Exception (lines 237-240): log, then sleep five intervals.
TopLevelFailure ==
    /\ pc' = "backoff"
    /\ wakeAt' = now + NOTIFICATION_CHECK_INTERVAL_SECONDS * BackoffFactor
    /\ DropLocals

\* CycleStart for a timer that does not wait for the running iteration: a
\* new iteration also starts while the last one is in its wait after a
\* failure.
CycleStart_DuringBackoff ==
    /\ pc \in {"sleep", "backoff"}
    /\ ready
    /\ now >= nextIter
    /\ \/ /\ store # {}
          /\ \E all_events \in get_all_events_for_notifications(store) :
                snapshot' = all_events
          /\ now_utc' = now
          /\ pc' = "record"
          /\ idx' = 1
          /\ kind' = 1
          /\ nextIter' = nextIter + Interval
          /\ UNCHANGED <<skipped, wakeAt>>
       \/ /\ store = {}
          /\ pc' = "sleep"
          /\ nextIter' = Max(now, nextIter + Interval)
          /\ UNCHANGED <<snapshot, now_utc, idx, skipped, kind, wakeAt>>
       \/ /\ nextIter' = nextIter + Interval
          /\ TopLevelFailure
    /\ delivered' = Alive(delivered, store)
    /\ failedLast' = Alive(failedLast, store)
    /\ UNCHANGED <<now, ready, lookup, sharing, sweepVars, views, storeVars, reply>>

\* A new iteration: tasks.loop schedules the one after it, then
\* wait_until_ready and lines 38-39 (the fetch of all rows and the sample of
\* now_utc), or the fetch raises.
CycleStart ==
    /\ pc = "sleep"
    /\ ready
    /\ now >= nextIter
    /\ \/ /\ store # {}
          /\ \E all_events \in get_all_events_for_notifications(store) :
                snapshot' = all_events
          /\ now_utc' = now
          /\ pc' = "record"
          /\ idx' = 1
          /\ kind' = 1
          /\ nextIter' = nextIter + Interval
          /\ UNCHANGED <<skipped, wakeAt>>
       \/ /\ store = {}
          /\ pc' = "sleep"
          /\ nextIter' = Max(now, nextIter + Interval)
          /\ UNCHANGED <<snapshot, now_utc, idx, skipped, kind, wakeAt>>
       \/ /\ nextIter' = nextIter + Interval
          /\ TopLevelFailure
    /\ delivered' = Alive(delivered, store)
    /\ failedLast' = Alive(failedLast, store)
    /\ UNCHANGED <<now, ready, lookup, sharing, sweepVars, views, storeVars, reply>>

\* SchedRecord with a fetch_user error that reaches the top-level handler.
SchedRecord_AbortsOnError ==
    /\ pc = "record"
    /\ \/ /\ pc' = "kind"
          /\ UNCHANGED <<snapshot, now_utc, idx, skipped, kind, nextIter, wakeAt>>
       \/ /\ \E error \in {"NotFound", "HTTPException", "Exception"} : TRUE
          /\ TopLevelFailure
          /\ UNCHANGED nextIter
    /\ UNCHANGED <<now, ready, lookup, sharing, sweepVars, views, storeVars, ghostVars>>

\* Lines 42-93 for the row at idx: the owner is in the cache or fetch_user
\* returns it, or fetch_user raises and the row is skipped.
SchedRecord ==
    /\ pc = "record"
    /\ \/ /\ pc' = "kind"
          /\ UNCHANGED <<snapshot, now_utc, idx, skipped, kind, nextIter, wakeAt>>
       \/ /\ \E error \in {"NotFound", "HTTPException", "Exception"} : TRUE
          /\ NextRecord(skipped \cup {idx})
    /\ UNCHANGED <<now, ready, lookup, sharing, sweepVars, views, storeVars, ghostVars>>

\* The head of one notification block (lines 98-104, 134-138, 168-176 or
\* 206-208): the flag and the times of the fetched row decide whether
\* user.send is called.
SchedKind ==
    LET event == snapshot[idx]
        key == <<event.lid, Kinds[kind]>>
    IN
    /\ pc = "kind"
    /\ \/ /\ BlockRaises(kind, event)
          /\ TopLevelFailure
          /\ UNCHANGED nextIter
       \/ /\ ~BlockRaises(kind, event)
          /\ ~Due(kind, event, now_utc)
          /\ NextKind
       \/ /\ ~BlockRaises(kind, event)
          /\ Due(kind, event, now_utc)
          /\ pc' = "send"
          /\ UNCHANGED <<snapshot, now_utc, idx, skipped, kind, nextIter, wakeAt>>
    /\ failedLast' = failedLast \ {key}
    /\ UNCHANGED <<now, ready, lookup, sharing, sweepVars, views, storeVars, delivered, reply>>

\* SchedSend with one try around the four blocks of a row: a send that
\* raises ends the work on the row.
SchedSend_SkipsRecordOnFailure(track) ==
    LET event == snapshot[idx]
        key == <<event.lid, Kinds[kind]>>
    IN
    /\ pc = "send"
    /\ \/ /\ pc' = "write"
          /\ delivered' = IF "delivered" \in track
                           THEN delivered \cup {key} ELSE delivered
          /\ UNCHANGED failedLast
          /\ UNCHANGED <<snapshot, now_utc, idx, skipped, kind, nextIter, wakeAt>>
       \/ /\ \E error \in {"Forbidden", "Exception"} : TRUE
          /\ failedLast' = IF "failed" \in track
                            THEN failedLast \cup {key} ELSE failedLast
          /\ NextRecord(skipped)
          /\ UNCHANGED delivered
    /\ UNCHANGED <<now, ready, lookup, sharing, sweepVars, views, storeVars, reply>>

\* SchedSend that calls user.send again after a send that raised.
SchedSend_RetriesOnFailure(track) ==
    LET event == snapshot[idx]
        key == <<event.lid, Kinds[kind]>>
    IN
    /\ pc = "send"
    /\ \/ /\ pc' = "write"
          /\ delivered' = IF "delivered" \in track
                           THEN delivered \cup {key} ELSE delivered
          /\ UNCHANGED failedLast
       \/ /\ \E error \in {"Forbidden", "Exception"} : TRUE
          /\ failedLast' = IF "failed" \in track
                            THEN failedLast \cup {key} ELSE failedLast
          /\ pc' = "send"
          /\ UNCHANGED delivered
    /\ UNCHANGED <<snapshot, now_utc, idx, skipped, kind, nextIter, wakeAt>>
    /\ UNCHANGED <<now, ready, lookup, sharing, sweepVars, views, storeVars, reply>>

\* SchedSend with the flag written after a send that raised.
SchedSend_WritesOnFailure(track) ==
    LET event == snapshot[idx]
        key == <<event.lid, Kinds[kind]>>
    IN
    /\ pc = "send"
    /\ pc' = "write"
    /\ \/ /\ delivered' = IF "delivered" \in track
                           THEN delivered \cup {key} ELSE delivered
          /\ UNCHANGED failedLast
       \/ /\ \E error \in {"Forbidden", "Exception"} : TRUE
          /\ failedLast' = IF "failed" \in track
                            THEN failedLast \cup {key} ELSE failedLast
          /\ UNCHANGED delivered
    /\ UNCHANGED <<snapshot, now_utc, idx, skipped, kind, nextIter, wakeAt>>
    /\ UNCHANGED <<now, ready, lookup, sharing, sweepVars, views, storeVars, reply>>

\* `await user.send(embed=embed)`: the message is delivered, or send raises
\* and one of the two except clauses of the block logs it.
SchedSend(track) ==
    LET event == snapshot[idx]
        key == <<event.lid, Kinds[kind]>>
    IN
    /\ pc = "send"
    /\ \/ /\ pc' = "write"
          /\ delivered' = IF "delivered" \in track
                           THEN delivered \cup {key} ELSE delivered
          /\ UNCHANGED failedLast
          /\ UNCHANGED <<snapshot, now_utc, idx, skipped, kind, nextIter, wakeAt>>
       \/ /\ \E error \in {"Forbidden", "Exception"} : TRUE
          /\ failedLast' = IF "failed" \in track
                            THEN failedLast \cup {key} ELSE failedLast
          /\ NextKind
          /\ UNCHANGED delivered
    /\ UNCHANGED <<now, ready, lookup, sharing, sweepVars, views, storeVars, reply>>

\* SchedWrite that saves the fetched row with the flag raised, whether or
\* not the row is still in the table.
SchedWrite_SavesFetchedRow ==
    LET event == snapshot[idx] IN
    /\ pc = "write"
    /\ \/ store' = {r \in store : r.lid # event.lid}
                       \cup {[event EXCEPT ![Kinds[kind]] = TRUE]}
       \/ store' = store
    /\ NextKind
    /\ UNCHANGED <<now, ready, lookup, sharing, sweepVars, views, nextLid, ghostVars>>

\* `await database.update_notification_flag(...)` after a sent message: the
\* UPDATE commits, or it raises and `except Exception` logs it.
SchedWrite ==
    LET event == snapshot[idx] IN
    /\ pc = "write"
    /\ \/ store' = update_notification_flag(store, event.user_id,
                                            event.event_name, Kinds[kind], TRUE)
       \/ store' = store
    /\ NextKind
    /\ UNCHANGED <<now, ready, lookup, sharing, sweepVars, views, nextLid, ghostVars>>

\* asyncio.sleep of the top-level handler is over: the coroutine returns and
\* tasks.loop computes its sleep.
SchedWake ==
    /\ pc = "backoff"
    /\ now >= wakeAt
    /\ pc' = "sleep"
    /\ nextIter' = Max(now, nextIter)
    /\ wakeAt' = 0
    /\ UNCHANGED <<now, ready, lookup, sharing, sweepVars, views, storeVars, snapshot, now_utc, idx,
                   skipped, kind, ghostVars>>

\* ------------------------------------------------------ the cleanup loop
\* Sweep without wait_until_ready, neither in before_loops nor in the body.
Sweep_BeforeReady(track) ==
    /\ sweeper # "stopped"
    /\ \/ LET res == remove_past_events(store, now) IN
          /\ store' = res.rows
          /\ sweeper' = IF "sweeps" \in track THEN "done" ELSE sweeper
          /\ deleted_count' = IF "sweeps" \in track
                               THEN res.count ELSE deleted_count
       \/ /\ store' = store
          /\ sweeper' = IF "sweeps" \in track THEN "logged" ELSE sweeper
          /\ UNCHANGED deleted_count
    /\ UNCHANGED <<now, ready, lookup, sharing, views, nextLid, schedVars, ghostVars>>

\* Sweep with an error that leaves the coroutine: tasks.loop ends the loop.
Sweep_StopsOnError(track) ==
    /\ ready
    /\ sweeper # "stopped"
    /\ \/ LET res == remove_past_events(store, now) IN
          /\ store' = res.rows
          /\ sweeper' = IF "sweeps" \in track THEN "done" ELSE sweeper
          /\ deleted_count' = IF "sweeps" \in track
                               THEN res.count ELSE deleted_count
       \/ /\ store' = store
          /\ sweeper' = "stopped"
          /\ UNCHANGED deleted_count
    /\ UNCHANGED <<now, ready, lookup, sharing, views, nextLid, schedVars, ghostVars>>

\* cleanup_past_events_loop: remove_past_events commits and returns its
\* count, or it raises and `except Exception` logs the error.  The hourly
\* tick may fall on any instant of the model.  The outcome is recorded in
\* the specifications that name "sweeps".
Sweep(track) ==
    /\ ready
    /\ sweeper # "stopped"
    /\ \/ LET res == remove_past_events(store, now) IN
          /\ store' = res.rows
          /\ sweeper' = IF "sweeps" \in track THEN "done" ELSE sweeper
          /\ deleted_count' = IF "sweeps" \in track
                               THEN res.count ELSE deleted_count
       \/ /\ store' = store
          /\ sweeper' = IF "sweeps" \in track THEN "logged" ELSE sweeper
          /\ UNCHANGED deleted_count
    /\ UNCHANGED <<now, ready, lookup, sharing, views, nextLid, schedVars, ghostVars>>

\* ------------------------------------------------------------------- Next
Next ==
    \/ Tick(WindowInstants)
    \/ BotReady
    \/ \E u \in Owners, url \in Urls : AddEvent(u, url, {})
    \/ \E u \in Owners, n \in Names, sp \in CustomSpans : CreateCustomEvent(u, n, sp, {})
    \/ \E u \in Owners, n \in Names, t \in Owners : ShareEvent(u, n, t, {})
    \/ \E u \in Owners, n \in Names : RemoveEvent(u, n, {})
    \/ CycleStart
    \/ SchedRecord
    \/ SchedKind
    \/ SchedSend({})
    \/ SchedWrite
    \/ SchedWake
    \/ Sweep({})

\* The two loops with the commands that insert and delete rows, on the
\* instants of the notification windows.
Spec == Init /\ [][Next]_vars

NextAll ==
    \/ Tick(SweepInstants)
    \/ BotReady
    \/ \E u \in Owners, url \in Urls : AddEvent(u, url, {})
    \/ \E u \in Owners, n \in Names, sp \in CustomSpans : CreateCustomEvent(u, n, sp, {})
    \/ \E u \in Owners, n \in Names, t \in Owners : ShareEvent(u, n, t, {})
    \/ \E u \in Owners, n \in Names : RemoveEvent(u, n, {})
    \/ \E u \in Owners : ClearAgenda(u)
    \/ \E a \in Owners, p \in Owners : ConfirmButton(a, p, {})
    \/ \E a \in Owners : CancelOrTimeout(a)
    \/ CycleStart
    \/ SchedRecord
    \/ SchedKind
    \/ SchedSend({})
    \/ SchedWrite
    \/ SchedWake
    \/ Sweep({})

NextSent ==
    \/ Tick(WindowInstants)
    \/ BotReady
    \/ \E u \in Owners, url \in Urls : AddEvent(u, url, {})
    \/ \E u \in Owners, n \in Names, sp \in CustomSpans : CreateCustomEvent(u, n, sp, {})
    \/ \E u \in Owners, n \in Names, t \in Owners : ShareEvent(u, n, t, {})
    \/ \E u \in Owners, n \in Names : RemoveEvent(u, n, {})
    \/ CycleStart
    \/ SchedRecord
    \/ SchedKind
    \/ SchedSend({"delivered"})
    \/ SchedWrite
    \/ SchedWake
    \/ Sweep({})

\* Spec, with the messages sent to each lifetime recorded.
SpecSent == Init /\ [][NextSent]_vars

NextRetry ==
    \/ Tick(WindowInstants)
    \/ BotReady
    \/ \E u \in Owners, url \in Urls : AddEvent(u, url, {})
    \/ \E u \in Owners, n \in Names, sp \in CustomSpans : CreateCustomEvent(u, n, sp, {})
    \/ \E u \in Owners, n \in Names, t \in Owners : ShareEvent(u, n, t, {})
    \/ \E u \in Owners, n \in Names : RemoveEvent(u, n, {})
    \/ CycleStart
    \/ SchedRecord
    \/ SchedKind
    \/ SchedSend({"failed"})
    \/ SchedWrite
    \/ SchedWake
    \/ Sweep({})

\* Spec, with the failed sends recorded.
SpecRetry == Init /\ [][NextRetry]_vars

\* /custom for an event that starts in one hour and ends in three.
InsertScenario(user, name) ==
    CreateCustomEvent(user, name, <<Datetime(now + OneHour, 0),
                                    Datetime(now + 3 * OneHour, 0)>>, {})

NextScenario ==
    \/ Tick(ScenarioInstants)
    \/ BotReady
    \/ \E u \in Owners, n \in Names : InsertScenario(u, n)
    \/ \E u \in Owners, n \in Names : RemoveEvent(u, n, {})
    \/ CycleStart
    \/ SchedRecord
    \/ SchedKind
    \/ SchedSend({})
    \/ SchedWrite
    \/ SchedWake

\* The notification loop on events inserted one hour before their start.
SpecScenario == Init /\ [][NextScenario]_vars

NextSweep ==
    \/ Tick(RetentionInstants)
    \/ BotReady
    \/ \E u \in Owners, url \in Urls : AddEvent(u, url, {})
    \/ \E u \in Owners, n \in Names, sp \in OffsetSpans : CreateCustomEvent(u, n, sp, {})
    \/ CycleStart
    \/ SchedRecord
    \/ SchedKind
    \/ SchedSend({"failed"})
    \/ SchedWrite
    \/ SchedWake
    \/ Sweep({"sweeps"})

\* The two loops over the retention of events that no owner removes, with
\* the failed sends and the outcomes of the sweeps recorded.
SpecSweep == Init /\ [][NextSweep]_vars

NextIO ==
    \/ Tick(WindowInstants)
    \/ \E u \in Owners, url \in Urls : AddLookup(u, url)
    \/ AddResume({})
    \/ Scheduled(BotReady)
    \/ Scheduled(\E u \in Owners, n \in Names : RemoveEvent(u, n, {}))
    \/ Scheduled(CycleStart)
    \/ Scheduled(SchedRecord)
    \/ Scheduled(SchedKind)
    \/ Scheduled(SchedSend({}))
    \/ Scheduled(SchedWrite)
    \/ Scheduled(SchedWake)
    \/ Scheduled(Sweep({}))

\* The two loops, /add and /remove as the event loop interleaves them, with
\* the catalog lookup of /add as a step of its own.
SpecIO == Init /\ [][NextIO]_vars

NextCommands ==
    \/ Tick(WindowInstants)
    \/ BotReady
    \/ \E u \in Owners, url \in Urls : AddEvent(u, url, {"replies"})
    \/ \E u \in Owners, n \in Names, sp \in CustomSpans \cup MalformedSpans :
          CreateCustomEvent(u, n, sp, {"replies"})
    \/ \E u \in Owners, n \in Names, t \in Owners : ShareEvent(u, n, t, {"replies"})
    \/ \E u \in Owners, n \in Names : RemoveEvent(u, n, {"replies"})

\* The command handlers alone, with each command and its follow-up message
\* recorded.
SpecCommands == Init /\ [][NextCommands]_vars

\* Instants of the /share scenario: before the first window of the catalog
\* event, the opening of that window and its end.
ShareInstants == {FirstInstant, EventStart - OneHour,
                  EventStart - OneHour + FiveMinutes}

NextShare ==
    \/ Tick(ShareInstants)
    \/ BotReady
    \/ \E u \in Owners : AddEvent(u, "https://ctftime.org/event/1", {})
    \/ \E u \in Owners, n \in Names, t \in Owners : ShareRead(u, n, t, {"replies"})
    \/ ShareInsert({"replies"})
    \/ \E u \in Owners, n \in Names : RemoveEvent(u, n, {})
    \/ CycleStart
    \/ SchedRecord
    \/ SchedKind
    \/ SchedSend({})
    \/ SchedWrite
    \/ SchedWake

\* The notification loop with /add, /remove and /share, the two store
\* accesses of /share as steps of their own and its follow-up recorded.
SpecShare == Init /\ [][NextShare]_vars

NextClear ==
    \/ Tick(ShareInstants)
    \/ BotReady
    \/ \E u \in Owners : AddEvent(u, "https://ctftime.org/event/1", {"replies"})
    \/ \E u \in Owners : ClearAgenda(u)
    \/ \E a \in Owners, p \in Owners : ConfirmButton(a, p, {"replies"})
    \/ \E a \in Owners, p \in Owners : CancelButton(a, p, {"replies"})
    \/ \E a \in Owners : OnTimeout(a, {"replies"})
    \/ CycleStart
    \/ SchedRecord
    \/ SchedKind
    \/ SchedSend({})
    \/ SchedWrite
    \/ SchedWake

\* The notification loop with /add and /clear, the presses and the timeout
\* of the confirmation and their messages recorded.
SpecClear == Init /\ [][NextClear]_vars

\* Instants around the end of the catalog event: before its first window,
\* its end, and a second later.
AddInstants == {FirstInstant, EventEnd, EventEnd + 1}

NextAdd ==
    \/ Tick(AddInstants)
    \/ \E u \in Owners, url \in Urls : AddLookup(u, url)
    \/ AddResume({"replies"})
    \/ Scheduled(BotReady)
    \/ Scheduled(\E u \in Owners, n \in Names : RemoveEvent(u, n, {"replies"}))

\* /add and /remove around the end of the catalog event, the catalog lookup
\* of /add as a step of its own and the follow-up messages recorded.
SpecAdd == Init /\ [][NextAdd]_vars

\* Every loop and every command, on the instants of the retention sweep.
SpecAll == Init /\ [][NextAll]_vars

\* =================================================================== claims
\* A step of SchedKind on block k: the row at idx leaves the head of the block.
EvalStep(k) ==
    /\ pc = "kind"
    /\ kind = k
    /\ <<pc, idx, kind>>' # <<pc, idx, kind>>

\* C1: for every lifetime of a record and every kind, at most one user.send
\* of that kind succeeds, whatever cycles, resolution failures, delivery
\* failures and store-write failures occur: a send never succeeds for a
\* (lifetime, kind) that already got one.
C1_AtMostOneDelivery ==
    [][(pc = "send" /\ pc' = "write")
         => <<snapshot[idx].lid, Kinds[kind]>> \notin delivered]_vars

\* C2: flags are monotonic: under any interleaving of cycles, sweeps and
\* the add, custom, share, remove and clear handlers, a flag that is true on
\* a row stays true for as long as that row (that lifetime) is in the store.
C2_FlagsMonotonic ==
    [][\A r \in store, q \in store' :
         r.lid = q.lid => \A f \in KindSet : r[f] => q[f]]_vars

\* A row with two flags raised, next to a row inserted after it.
C2_Witness ==
    \E r, q \in store :
        /\ r.reminder_sent
        /\ r.congratulations_sent
        /\ q.lid > r.lid

\* The trigger window of block k for a row, on the sampled time t.
InWindow(k, event, t) ==
    CASE k = 1 -> /\ StartTime(event) - OneHour <= t
                  /\ t < StartTime(event) - OneHour + FiveMinutes
      [] k = 2 -> /\ StartTime(event) <= t
                  /\ t < StartTime(event) + OneMinute
      [] k = 3 -> /\ EndTime(event) - OneHour <= t
                  /\ t < EndTime(event) - OneHour + FiveMinutes
      [] OTHER -> EndTime(event) <= t

C4_FlagPersistedBeforeNextAttempt ==
    [][(pc = "write" /\ pc' # "write")
         => \A r \in store' :
               r.lid = snapshot[idx].lid => r[Kinds[kind]]]_vars

\* A step of SchedRecord that leaves the row at idx at a `continue`.
SkipStep ==
    /\ pc = "record"
    /\ pc' # "kind"
    /\ <<pc, idx>>' # <<pc, idx>>

\* C5: when the owner of a record cannot be resolved, the cycle writes no
\* flag and calls no user.send for that record, goes on with the next row of
\* its snapshot (or returns normally after the last one), and the snapshot
\* of the next cycle holds every row of the store again.
C5_ResolutionFailureSkipsOneRecord ==
    [][/\ SkipStep =>
             /\ store' = store
             /\ pc' \notin {"send", "write"}
             /\ IF idx < Len(snapshot)
                THEN pc' = "record" /\ idx' = idx + 1 /\ snapshot' = snapshot
                ELSE pc' = "sleep"
       /\ \A i \in skipped' : i < idx'
       /\ (pc = "sleep" /\ pc' = "record")
             => {snapshot'[i] : i \in 1..Len(snapshot')} = store]_vars

\* The first row of a snapshot was skipped and the cycle is at a block of
\* the second row.
C5_Witness ==
    /\ 1 \in skipped
    /\ idx = 2
    /\ pc = "kind"

\* C6: a failure while one record is processed does not end the cycle for
\* the others: a cycle ends only after the last row of its snapshot.
C6_CycleReachesEveryRecord ==
    [][(pc \in {"record", "kind", "send", "write"} /\ pc' \in {"sleep", "backoff"})
         => idx = Len(snapshot)]_vars

\* C7: a top-level failure does not end the loop: the loop waits five poll
\* intervals (more than one), then is ready for another cycle at once, and a
\* cycle that returns without a failure leaves the next one due an interval
\* after its own start, or at once when that instant has passed.
C7_BackoffThenNormalCadence ==
    [][/\ pc' \in {"sleep", "record", "kind", "send", "write", "backoff"}
       /\ (pc # "backoff" /\ pc' = "backoff") =>
             /\ wakeAt' = now + 5 * NOTIFICATION_CHECK_INTERVAL_SECONDS
             /\ wakeAt' > now + NOTIFICATION_CHECK_INTERVAL_SECONDS
       /\ (pc = "backoff" /\ pc' # "backoff") =>
             /\ pc' = "sleep"
             /\ now >= wakeAt
             /\ nextIter' <= now
       /\ (pc \in {"record", "kind", "send", "write"} /\ pc' = "sleep") =>
             nextIter' <= Max(now, now_utc + NOTIFICATION_CHECK_INTERVAL_SECONDS)]_vars

\* The loop is in the wait after a failure, the wait is over and rows are
\* in the store for the cycle to come.
C7_Witness ==
    /\ pc = "backoff"
    /\ now >= wakeAt
    /\ store # {}

\* C8: once the owner of a record is resolved, the cycle calls user.send for
\* the reminder exactly when reminder_sent is false in the fetched row and
\* start_time - 1h <= now_utc < start_time - 1h + 5min.
C8_ReminderAttemptedIffDue ==
    [][EvalStep(1) =>
         (pc' = "send" <=>
            /\ ~snapshot[idx].reminder_sent
            /\ StartTime(snapshot[idx]) - OneHour <= now_utc
            /\ now_utc < StartTime(snapshot[idx]) - OneHour + FiveMinutes)]_vars

\* The reminder is being sent on the first instant of its window.
C8_Witness ==
    /\ pc = "send"
    /\ kind = 1
    /\ now_utc = StartTime(snapshot[idx]) - OneHour

\* C9: once the owner of a record is resolved, the cycle calls user.send for
\* good_luck exactly when good_luck_sent is false in the fetched row and
\* start_time <= now_utc < start_time + 1min; a cycle that stops at the
\* reminder block of the record stops outside that window.
C9_GoodLuckAttemptedIffDue ==
    [][/\ EvalStep(2) =>
            (pc' = "send" <=>
               /\ ~snapshot[idx].good_luck_sent
               /\ StartTime(snapshot[idx]) <= now_utc
               /\ now_utc < StartTime(snapshot[idx]) + OneMinute)
       /\ (EvalStep(1) /\ pc' = "backoff") =>
            ~(/\ ~snapshot[idx].good_luck_sent
              /\ StartTime(snapshot[idx]) <= now_utc
              /\ now_utc < StartTime(snapshot[idx]) + OneMinute)]_vars

\* good_luck is being sent on the first instant of its window.
C9_Witness ==
    /\ pc = "send"
    /\ kind = 2
    /\ now_utc = StartTime(snapshot[idx])

\* C10: once the owner of a record is resolved, the cycle calls user.send for
\* ending_soon exactly when ending_soon_sent is false in the fetched row and
\* end_time - 1h <= now_utc < end_time - 1h + 5min; a cycle that stops at an
\* earlier block of the record stops outside that window.
C10_EndingSoonAttemptedIffDue ==
    [][/\ EvalStep(3) =>
            (pc' = "send" <=>
               /\ ~snapshot[idx].ending_soon_sent
               /\ EndTime(snapshot[idx]) - OneHour <= now_utc
               /\ now_utc < EndTime(snapshot[idx]) - OneHour + FiveMinutes)
       /\ (pc = "kind" /\ kind < 3 /\ pc' = "backoff") =>
            ~(/\ ~snapshot[idx].ending_soon_sent
              /\ EndTime(snapshot[idx]) - OneHour <= now_utc
              /\ now_utc < EndTime(snapshot[idx]) - OneHour + FiveMinutes)]_vars

\* C11: once the owner of a record is resolved, the cycle calls user.send for
\* congratulations exactly when congratulations_sent is false in the fetched
\* row and now_utc >= end_time, however late now_utc is and whatever the other
\* three flags are; a cycle that stops at an earlier block of the record
\* stops with congratulations not due.
C11_CongratulationsAttemptedIffDue ==
    [][/\ EvalStep(4) =>
            (pc' = "send" <=>
               /\ ~snapshot[idx].congratulations_sent
               /\ now_utc >= EndTime(snapshot[idx]))
       /\ (pc = "kind" /\ kind < 4 /\ pc' = "backoff") =>
            ~(/\ ~snapshot[idx].congratulations_sent
              /\ now_utc >= EndTime(snapshot[idx]))]_vars

\* The row of the scenario at the head of one of its blocks: it ends two
\* hours after its start (it was inserted one hour before its start), it has
\* the given flags raised and the cycle sampled its time `before` seconds
\* before the start.
ScenarioEval(before, raised) ==
    /\ pc = "kind"
    /\ EndTime(snapshot[idx]) = StartTime(snapshot[idx]) + 2 * OneHour
    /\ \A f \in KindSet : snapshot[idx][f] <=> f \in raised
    /\ now_utc = StartTime(snapshot[idx]) - before

\* C12 as stated: for a record inserted at t0 with start = t0 + 1h,
\* end = t0 + 3h and all flags false, the evaluation at t0 + 1h - 2min
\* attempts the reminder and nothing else.
C12_ReminderDueTwoMinutesBeforeStart ==
    [][\A k \in 1..4 :
         (EvalStep(k) /\ ScenarioEval(2 * OneMinute, {}))
            => (pc' = "send" <=> k = 1)]_vars

\* C12 amended: for that record the evaluation at t0 + 2min attempts the
\* reminder and nothing else, and the evaluation at t0 + 1h - 2min attempts
\* nothing: the reminder window is [t0, t0 + 5min).
C12_ReminderDueTwoMinutesAfterInsert ==
    [][\A k \in 1..4 :
         /\ (EvalStep(k) /\ ScenarioEval(OneHour - 2 * OneMinute, {}))
               => (pc' = "send" <=> k = 1)
         /\ (EvalStep(k) /\ ScenarioEval(2 * OneMinute, {}))
               => pc' # "send"]_vars

\* The evaluation at t0 + 1h - 2min has passed the reminder block of the
\* scenario row.
C12_Witness ==
    /\ ScenarioEval(2 * OneMinute, {})
    /\ kind = 2

\* C13: for the scenario record with only the reminder flag raised, the
\* evaluation at t0 + 1h - 1min attempts nothing and the evaluation at
\* t0 + 1h attempts good_luck and nothing else; in general user.send is
\* called for kind k of a record only while flag k of that record is false
\* in the store, and a raised flag stays raised, so no cycle attempts kind k
\* after flag k was raised.
C13_NoAttemptOnceFlagRaised ==
    [][/\ \A k \in 1..4 :
            /\ (EvalStep(k) /\ ScenarioEval(OneMinute, {"reminder_sent"}))
                  => pc' # "send"
            /\ (EvalStep(k) /\ ScenarioEval(0, {"reminder_sent"}))
                  => (pc' = "send" <=> k = 2)
       /\ pc' = "send" =>
            \A r \in store' :
                r.lid = snapshot'[idx'].lid => ~r[Kinds[kind']]
       /\ \A r \in store, q \in store' :
            r.lid = q.lid => \A f \in KindSet : r[f] => q[f]]_vars

\* good_luck is being sent at t0 + 1h to the scenario record whose reminder
\* flag is raised.
C13_Witness ==
    /\ pc = "send"
    /\ kind = 2
    /\ snapshot[idx].reminder_sent
    /\ now_utc = StartTime(snapshot[idx])
    /\ EndTime(snapshot[idx]) = StartTime(snapshot[idx]) + 2 * OneHour

\* The instant at which the window of the narrow kind k closes for a row.
WindowEnd(k, event) ==
    CASE k = 1 -> StartTime(event) - OneHour + FiveMinutes
      [] k = 2 -> StartTime(event) + OneMinute
      [] OTHER -> EndTime(event) - OneHour + FiveMinutes

\* Flag k of the row is false and the window of k has closed for every cycle
\* to come: the running cycle fetched the row and sampled its time at or
\* after the end of the window, or no cycle is running and the clock has
\* reached the end of the window.
Missed(r, k) ==
    /\ ~r[Kinds[k]]
    /\ \/ /\ pc \in {"sleep", "backoff"}
          /\ WindowEnd(k, r) <= now
       \/ /\ pc \in {"record", "kind", "send", "write"}
          /\ \E i \in 1..Len(snapshot) : snapshot[i].lid = r.lid
          /\ WindowEnd(k, r) <= now_utc

\* C14: a missed window of reminder, good_luck or ending_soon is never
\* caught up: once a cycle has sampled a time at or after the end of the
\* window with the flag still false, the kind is never attempted for that
\* record again and its flag stays false while the record is in the store.
C14_MissedWindowNeverCaughtUp ==
    [][\A r \in store : \A k \in 1..3 :
         Missed(r, k) =>
            /\ \A q \in store' : q.lid = r.lid => Missed(q, k)'
            /\ ~(/\ pc = "kind"
                 /\ kind = k
                 /\ snapshot[idx].lid = r.lid
                 /\ pc' = "send")]_vars

\* A cycle is at the reminder block of the catalog event after the window
\* of the reminder closed with the flag still false.
C14_Witness ==
    /\ pc = "kind"
    /\ kind = 1
    /\ StartTime(snapshot[idx]) = EventStart
    /\ \E r \in store : r.lid = snapshot[idx].lid /\ Missed(r, 1)

\* The record r is no longer in the store after the step.
Gone(r) == \A q \in store' : q.lid # r.lid

\* C15: a record whose congratulations is undelivered because the last
\* attempt failed is never deleted: it stays in the store so that a later
\* cycle can attempt congratulations again (no owner removes a record in
\* SpecSweep).  Stated for the records whose end time is stored in UTC, on
\* which the sweeper's cutoff falls exactly one day after the end.
C15_UndeliveredCongratulationsKept ==
    [][\A r \in store :
          (/\ ~r.congratulations_sent
           /\ r.end_time.off = 0
           /\ <<r.lid, "congratulations_sent">> \in failedLast)
          => ~Gone(r)]_vars

\* C16: no record whose end_time + 1 day is later than the current time is
\* deleted (no owner removes a record in SpecSweep, so every deletion is the
\* sweeper's); a record that ended 23 hours ago survives.
C16_SweepKeepsRecordsInGracePeriod ==
    [][\A r \in store : EndTime(r) + OneDay > now => ~Gone(r)]_vars

\* A sweep that returned: the cleanup loop moved to "done" or returned
\* another count, and nothing else of the program moved.
SweepReturned ==
    /\ sweeper' = "done"
    /\ UNCHANGED <<now, ready, lookup, sharing, views, nextLid, schedVars, ghostVars>>

\* C17: a sweep that returns has deleted every record, of every owner and
\* whatever its flags, whose end_time is more than 1 day before the sweep
\* time, and returns the number of records it deleted; a record that ended
\* 25 hours ago is deleted.
C17_SweepDeletesEveryExpiredRecord ==
    [][SweepReturned =>
          /\ \A r \in store : EndTime(r) + OneDay < now => Gone(r)
          /\ deleted_count' = Cardinality(store) - Cardinality(store')]_vars

\* C18: a failure during a sweep never stops the sweeper: the loop is never
\* stopped, and whenever the bot is ready, also right after a sweep whose
\* error was logged, the next tick can run a sweep.
C18_SweepFailureNeverStopsSweeper ==
    /\ sweeper # "stopped"
    /\ ready => ENABLED Sweep({"sweeps"})

\* A sweep over a store with records has raised and its error was logged.
C18_Witness ==
    /\ sweeper = "logged"
    /\ store # {}

\* The event_data dictionaries the handlers pass to add_event_to_user: the
\* catalog event, and every custom event of the model.
InsertInputs ==
    {Catalog[1]} \cup
    {[event_name |-> n, ctftime_url |-> "none", start |-> sp[1], finish |-> sp[2]] :
        n \in Names, sp \in CustomSpans \cup OffsetSpans}

\* The row was inserted with all four flags false.
FlagsFalse(r) == \A k \in KindSet : ~r[k]

\* C19: on every reachable store, an insert whose (user_id, event_name) is
\* already present returns False and leaves every row as it is, flags
\* included; an insert whose key is absent, whoever else holds that
\* event_name, returns True and adds one row for that key and nothing else.
C19_DuplicateInsertRejected ==
    \A u \in Owners, event_data \in InsertInputs :
        LET res == add_event_to_user(store, u, event_data, nextLid) IN
        IF HasKey(store, u, event_data.event_name)
        THEN ~res.ok /\ res.rows = store
        ELSE /\ res.ok
             /\ store \subseteq res.rows
             /\ \E r \in res.rows :
                   /\ res.rows = store \cup {r}
                   /\ r.user_id = u
                   /\ r.event_name = event_data.event_name
                   /\ FlagsFalse(r)

\* Owner 1 holds an event with a raised flag and may add it once more with
\* other field values, and owner 2 holds an event of the same name.
C19_Witness ==
    \E r1, r2 \in store :
        /\ r1.user_id = 1 /\ r2.user_id = 2
        /\ r1.event_name = r2.event_name
        /\ r1.reminder_sent
        /\ \E event_data \in InsertInputs :
              /\ event_data.event_name = r1.event_name
              /\ adapt(event_data.start) # r1.start_time

\* C20: on every reachable store, after a successful insert for
\* (user_id, event_name), get_event_details of that key returns one row
\* whose inserted fields hold the values that were inserted, with all four
\* flags false.
C20_InsertFetchRoundTrip ==
    \A u \in Owners, event_data \in InsertInputs :
        LET res == add_event_to_user(store, u, event_data, nextLid)
            got == get_event_details(res.rows, u, event_data.event_name)
        IN res.ok =>
              \E r \in got :
                  /\ got = {r}
                  /\ r.user_id = u
                  /\ r.event_name = event_data.event_name
                  /\ r.ctftime_url = event_data.ctftime_url
                  /\ r.start_time = event_data.start
                  /\ r.end_time = event_data.finish
                  /\ FlagsFalse(r)

MalformedRequest(request) ==
    \/ /\ request.command = "custom"
       /\ \/ NotADate \in {request.span[1], request.span[2]}
          \/ astimezone_utc(request.span[1]) >= astimezone_utc(request.span[2])
    \/ /\ request.command = "add"
       /\ request.name \in {"ctftime.org/event/1", "https://ctftime.org/event/2"}

\* The follow-up messages that tell the user the input was rejected.
Rejections == {"invalid_date", "start_not_before_end", "invalid_url",
               "fetch_failed"}

\* C22: a step that handles a malformed command inserts nothing: the store
\* is unchanged and the user gets a rejection message.
C22_MalformedInputLeavesStore ==
    [][(reply' # reply /\ MalformedRequest(reply'.request)) =>
          /\ UNCHANGED storeVars
          /\ reply'.message \in Rejections]_vars

\* A /custom whose start is not before its end was just rejected while the
\* store holds a record.
C22_Witness ==
    /\ reply.request.command = "custom"
    /\ NotADate \notin {reply.request.span[1], reply.request.span[2]}
    /\ MalformedRequest(reply.request)
    /\ reply.message = "start_not_before_end"
    /\ store # {}

\* A step of check_events_loop.
SchedStep ==
    <<pc, snapshot, now_utc, idx, skipped, kind, wakeAt>>'
        # <<pc, snapshot, now_utc, idx, skipped, kind, wakeAt>>

\* The columns of a row other than its four flags.
NonFlagFields(r) == [f \in DOMAIN r \ KindSet |-> r[f]]

\* C23: a step of the scheduler inserts no row and deletes none (so rows
\* are deleted by the sweeper, /remove or /clear only), changes no column
\* other than a flag, and changes a flag only in the flag write, from false
\* to true, for the kind being handled, on the row of the handled
\* (user_id, event_name).
C23_SchedulerOnlyRaisesFlags ==
    [][SchedStep =>
          /\ nextLid' = nextLid
          /\ \A r \in store : \E q \in store' : q.lid = r.lid
          /\ \A q \in store' : \E r \in store :
                /\ r.lid = q.lid
                /\ NonFlagFields(r) = NonFlagFields(q)
                /\ \A f \in KindSet :
                      q[f] # r[f] =>
                         /\ q[f]
                         /\ pc = "write"
                         /\ f = Kinds[kind]
                         /\ r.user_id = snapshot[idx].user_id
                         /\ r.event_name = snapshot[idx].event_name]_vars

\* A flag write has raised a flag of one of two rows that carry the same
\* event name, and the cycle goes on.
C23_Witness ==
    /\ pc = "kind"
    /\ kind > 1
    /\ \E r, q \in store :
          /\ r.event_name = q.event_name
          /\ r.user_id # q.user_id
          /\ r[Kinds[kind - 1]]
          /\ ~q[Kinds[kind - 1]]
          /\ snapshot[idx].lid = r.lid

\* The three operations on a key that is not in the table: the lookup finds
\* nothing, the delete reports False, and neither it nor a flag update
\* changes a row.
MissingKeyIsNoOp(rows) ==
    \A u \in Owners, n \in Names :
        ~HasKey(rows, u, n) =>
            /\ get_event_details(rows, u, n) = {}
            /\ ~remove_event_from_user(rows, u, n).ok
            /\ remove_event_from_user(rows, u, n).rows = rows
            /\ \A f \in KindSet :
                  update_notification_flag(rows, u, n, f, TRUE) = rows

\* C24: operations on a missing key leave the store unchanged, on every
\* reachable store; and the flag write of a cycle whose record was deleted
\* after the cycle fetched it changes nothing, creates no row, and does not
\* end the cycle with an error.
C24_MissingKeyNonFatal ==
    [][/\ MissingKeyIsNoOp(store)
       /\ MissingKeyIsNoOp(store')
       /\ (/\ pc = "write"
           /\ SchedStep
           /\ ~HasKey(store, snapshot[idx].user_id, snapshot[idx].event_name))
          => /\ store' = store
             /\ pc' # "backoff"]_vars

\* A cycle has sent a notification and is about to write the flag of a
\* record that is no longer in the store.
C24_Witness ==
    /\ pc = "write"
    /\ ~HasKey(store, snapshot[idx].user_id, snapshot[idx].event_name)

\* C25: until the chat connection has reported ready, neither loop has
\* started or takes a step: no cycle fetches the rows, sends or writes a
\* flag, no sweep runs, and every row stays in the store as it is (no owner
\* removes a row in SpecSweep).
C25_NoLoopStepBeforeReady ==
    [][~ready =>
          /\ pc = "sleep"
          /\ sweeper = "waiting"
          /\ ~SchedStep
          /\ UNCHANGED sweepVars
          /\ \A r \in store : r \in store']_vars

\* The connection is not ready while the store holds a record that is past
\* the sweeper's cutoff and whose congratulations is due.
C25_Witness ==
    /\ ~ready
    /\ remove_past_events(store, now).count > 0
    /\ \E r \in store : Due(4, r, now)

\* A cycle is between its fetch of the rows and its return.
Running == pc \in {"record", "kind", "send", "write"}

\* The step leaves the block (row idx, kind) for a later block of the cycle
\* or ends the cycle.
Advanced ==
    \/ pc' \in {"sleep", "backoff"}
    \/ idx' > idx
    \/ idx' = idx /\ kind' > kind

\* C26: within one cycle there is at most one delivery attempt per (record,
\* kind): the fetched rows are distinct, the cycle never goes back to an
\* earlier block, a send is never attempted for a key whose attempt in this
\* cycle has failed, and after a send that raised, whatever the error, the
\* cycle leaves the block.
C26_OneAttemptPerCycle ==
    [][/\ \A i, j \in 1..Len(snapshot) :
             i # j => snapshot[i].lid # snapshot[j].lid
       /\ pc = "send" => <<snapshot[idx].lid, Kinds[kind]>> \notin failedLast
       /\ (pc = "send" /\ SchedStep) =>
             \/ pc' = "write" /\ idx' = idx /\ kind' = kind
             \/ Advanced
       /\ (Running /\ Running' /\ pc # "send") =>
             /\ snapshot' = snapshot
             /\ \/ Advanced
                \/ idx' = idx /\ kind' = kind]_vars

\* A send of this cycle has raised and the cycle is at the next block of
\* the same row.
C26_Witness ==
    /\ pc = "kind"
    /\ kind > 1
    /\ <<snapshot[idx].lid, Kinds[kind - 1]>> \in failedLast

\* The step begins a cycle: the scheduler arrives at the first row.
CycleBegins == SchedStep /\ pc' = "record" /\ idx' = 1

\* C27: a cycle works on the rows that were in the store when it began and
\* delivers for no other row: a cycle that begins after a row was removed
\* (by /remove, /clear or the sweeper) does not hold that row, so only the
\* cycle that fetched its rows before the removal can deliver for it; row
\* identities are not used again.
C27_StalenessBoundedToOneCycle ==
    [][/\ CycleBegins =>
             \A i \in 1..Len(snapshot') : snapshot'[i] \in store
       /\ (Running /\ SchedStep /\ ~CycleBegins) => snapshot' \in {snapshot, <<>>}
       /\ ~SchedStep => snapshot' = snapshot
       /\ \A q \in store' : q.lid < nextLid \/ (q.lid = nextLid /\ nextLid' > nextLid)
       /\ \A q \in store' : (\A r \in store : r.lid # q.lid) => q.lid = nextLid]_vars

\* A cycle is about to send a notification for a row that was removed after
\* the cycle fetched it.
C27_Witness ==
    /\ pc = "send"
    /\ \A r \in store : r.lid # snapshot[idx].lid

\* C28: on every reachable store and for every owner, clear_user_events
\* leaves exactly the rows of the other owners, each as it was, and returns
\* the number of rows it removed; the confirm button of /clear changes the
\* store in just that way for the user who pressed it.
C28_ClearRemovesOwnerRowsOnly ==
    [][/\ \A u \in Owners :
             LET res == clear_user_events(store, u) IN
             /\ res.rows = {r \in store : r.user_id # u}
             /\ res.count = Cardinality({r \in store : r.user_id = u})
       /\ (views' # views /\ store' # store) =>
             \E u \in views :
                /\ views' = views \ {u}
                /\ store' = {r \in store : r.user_id # u}]_vars

\* The confirmation of /clear is pending for an owner whose record has a
\* raised flag, next to a record of another owner.
C28_Witness ==
    \E r, q \in store :
        /\ r.user_id \in views
        /\ r.reminder_sent
        /\ q.user_id # r.user_id

\* C29: no component blocks the others while it waits on I/O: whenever the
\* scheduler, the sweeper or /remove has a step to take, the event loop can
\* run it, also while the /add handler waits for its catalog lookup.
C29_NoComponentBlocksOthers ==
    /\ ENABLED CycleStart => ENABLED Scheduled(CycleStart)
    /\ ENABLED SchedSend({}) => ENABLED Scheduled(SchedSend({}))
    /\ ENABLED SchedWrite => ENABLED Scheduled(SchedWrite)
    /\ ENABLED Sweep({}) => ENABLED Scheduled(Sweep({}))
    /\ \A u \in Owners, n \in Names :
          ENABLED RemoveEvent(u, n, {}) => ENABLED Scheduled(RemoveEvent(u, n, {}))

\* C30: in every reachable state, a flag of a stored record is true only if
\* a send of that kind succeeded for that record in its current lifetime,
\* also when /remove and a new insert of the same (user_id, event_name)
\* interleave with a cycle.
C30_FlagOnlyAfterDelivery ==
    \A r \in store : \A f \in KindSet :
        r[f] => <<r.lid, f>> \in delivered

\* The step arrives at the head of the next block of the same row, with the
\* rows and the time of the cycle kept; after the fourth block, at the next
\* row or at the end of the cycle.
AtNextBlock ==
    IF kind < 4
    THEN /\ pc' = "kind"
         /\ kind' = kind + 1
         /\ idx' = idx
         /\ snapshot' = snapshot
         /\ now_utc' = now_utc
    ELSE pc' \in {"record", "sleep"}

\* C31: the four blocks of a row are independent: after a send that raised,
\* and after a flag write whether it committed or raised, the cycle is at
\* the head of the next block of the same row; and every block after the
\* first is decided on the fetched row and the sampled time alone: it calls
\* user.send exactly when its own kind is due, whatever happened in the
\* blocks before it, and it does not end the cycle.
C31_KindsIndependent ==
    [][/\ (pc = "send" /\ SchedStep /\ pc' # "write") => AtNextBlock
       /\ (pc = "write" /\ SchedStep) => AtNextBlock
       /\ (pc = "kind" /\ SchedStep /\ kind > 1) =>
             /\ pc' # "backoff"
             /\ pc' = "send" <=> Due(kind, snapshot[idx], now_utc)
             /\ pc' = "send" => (idx' = idx /\ kind' = kind)]_vars

\* The good-luck send of this cycle raised, and the same cycle has sent the
\* ending-soon message of the same row and raised its flag.
C31_Witness ==
    /\ pc = "kind"
    /\ kind = 4
    /\ <<snapshot[idx].lid, "good_luck_sent">> \in failedLast
    /\ ~snapshot[idx].ending_soon_sent
    /\ \E r \in store : r.lid = snapshot[idx].lid /\ r.ending_soon_sent

\* Two kinds of one row were delivered in one cycle: the fetched row has
\* neither flag, the stored row has both.
TwoKindsInOneCycle ==
    /\ pc = "kind"
    /\ kind = 4
    /\ ~snapshot[idx].good_luck_sent
    /\ ~snapshot[idx].ending_soon_sent
    /\ \E r \in store :
          /\ r.lid = snapshot[idx].lid
          /\ r.good_luck_sent
          /\ r.ending_soon_sent

\* The columns that /share copies: all but the owner, the four flags and the
\* identity of the row.
SharedFields(r) ==
    [f \in DOMAIN r \ (KindSet \cup {"user_id", "lid"}) |-> r[f]]

\* C32: the insert of a /share adds, for the target, one row that has the
\* shared columns of the row the handler fetched and all four flags false,
\* whatever the flags of the fetched row, and changes no other row; when
\* the target already has a row of that name the store stays as it is; the
\* fetch changes nothing, and a /share of an event the sharer does not have
\* leaves the store as it is.
C32_ShareCreatesFreshRecord ==
    [][/\ (sharing.request # NoRequest /\ sharing'.request = NoRequest) =>
             LET event == sharing.event
                 target == sharing.request.target
             IN IF HasKey(store, target, event.event_name)
                THEN /\ store' = store
                     /\ reply'.message = "target_has_it"
                ELSE /\ reply'.message = "shared"
                     /\ \E q \in store' :
                           /\ q \notin store
                           /\ store' = store \cup {q}
                           /\ q.user_id = target
                           /\ SharedFields(q) = SharedFields(event)
                           /\ \A f \in KindSet : ~q[f]
       /\ (sharing.request = NoRequest /\ sharing'.request # NoRequest) =>
             /\ store' = store
             /\ sharing'.event \in store
             /\ sharing'.event.user_id = sharing'.request.user
             /\ sharing'.event.event_name = sharing'.request.name
       /\ (reply' # reply /\ reply'.message = "share_not_found") =>
             /\ store' = store
             /\ sharing' = sharing
             /\ ~HasKey(store, reply'.request.user, reply'.request.name)]_vars

\* A /share has just inserted a row for another user while the sharer's row
\* has its reminder flag raised.
C32_Witness ==
    /\ reply.message = "shared"
    /\ reply.request.target # reply.request.user
    /\ \E r, q \in store :
          /\ r.user_id = reply.request.user
          /\ q.user_id = reply.request.target
          /\ q.lid > r.lid
          /\ r.reminder_sent
          /\ ~q.reminder_sent

\* A /share to another user who has a row of that name has just been refused.
ShareRefused ==
    /\ reply.message = "target_has_it"
    /\ reply.request.target # reply.request.user
    /\ Cardinality(store) = 2

\* The step takes a row out of the store.
Deletes(r) == r \in store /\ \A q \in store' : q.lid # r.lid

CancelKeepsRecords ==
    /\ reply.message \in {"cancelled", "timed_out"}
    /\ reply.request.target \notin views
    /\ \E r \in store : r.user_id = reply.request.target /\ r.reminder_sent

\* C34: cycles do not overlap.  A cycle begins only from the sleep between
\* two iterations, when the locals of the last one are gone, and it begins
\* with the rows of the store and the clock of that instant; until it ends
\* it keeps that one list of rows and that one sampled time; between two
\* cycles, the wait after a failure included, no rows are held; and the
\* wait after a failure ends only when its time is over, into the sleep
\* from which the next cycle begins.
C34_CyclesNeverOverlap ==
    [][/\ pc \in {"sleep", "backoff"} => (snapshot = <<>> /\ now_utc = 0)
       /\ CycleBegins =>
             /\ pc = "sleep"
             /\ now_utc' = now
             /\ snapshot' \in get_all_events_for_notifications(store)
       /\ (Running /\ Running') =>
             /\ snapshot' = snapshot
             /\ now_utc' = now_utc
       /\ (~Running /\ Running') => CycleBegins
       /\ (pc = "backoff" /\ pc' # "backoff") =>
             /\ pc' = "sleep"
             /\ now >= wakeAt]_vars

\* The loop is in its wait after a failure, the scheduled time of the next
\* iteration has passed, and the store holds a record.
C34_Witness ==
    /\ pc = "backoff"
    /\ now < wakeAt
    /\ now >= nextIter
    /\ store # {}

\* The catalog answers the request with an event whose end is before now.
FinishedInCatalog(request) ==
    /\ request.command = "add"
    /\ re_match(request.name) # 0
    /\ Catalog[re_match(request.name)].event_name # "none"
    /\ astimezone_utc(Catalog[re_match(request.name)].finish) < now

\* C35: an /add of a catalog event whose end is before the time at which the
\* handler samples the clock is answered with the rejection and leaves the
\* store as it is; so no row that /add inserts has its end before the time
\* of the add.
C35_AddRejectsFinishedEvent ==
    [][/\ (reply' # reply /\ FinishedInCatalog(reply'.request)) =>
             /\ UNCHANGED storeVars
             /\ reply'.message = "already_finished"
       /\ \A q \in store' :
             (\A r \in store : r.lid # q.lid) =>
                /\ reply'.message = "added"
                /\ ~(EndTime(q) < now)]_vars

\* An /add of the catalog event has just been rejected, a second after the
\* end of the event, while another user holds the event.
C35_Witness ==
    /\ reply.message = "already_finished"
    /\ now = EventEnd + 1
    /\ \E r \in store : r.user_id # reply.request.user

====
